---- MODULE Spec2Model ----
(***************************************************************************)
(* Model of test-voic2trade.py: the N8nVoiceTradingTester HTTP client, the *)
(* two demo loops (demo_error_scenarios, demo_voice_commands) and main().   *)
(* The external webhook is the environment: every HTTP call either fails    *)
(* without a response, returns a body that is not JSON, or returns a JSON   *)
(* value with a status code.                                                *)
(***************************************************************************)
EXTENDS Integers, Sequences, FiniteSets, TLC

VARIABLES
  pc,            \* where the script is: start, voice, voice_sleep, error, error_sleep,
                 \* client, done, aborted
  menu_input,    \* the characters typed at the menu prompt of main()
  demo,          \* the demo function main() entered, "" if none
  base_arg,      \* the base_url argument given to N8nVoiceTradingTester
  base_url,      \* self.base_url
  i,             \* number of loop iterations the running demo has started
  requests,      \* every HTTP request attempted, in order
  case_response, \* what the webhook answered to the current demo case
  out,           \* lines printed by the current case or call
  calls,         \* number of direct method calls made on a tester
  raised,        \* exception a direct method call raised to its caller, "" if none
  alt_runs       \* what the current case reports in the runs that differ from this one
                 \* only in the status code answered and in the table's expected text

vars == <<pc, menu_input, demo, base_arg, base_url, i, requests, case_response,
          out, calls, raised, alt_runs>>

----------------------------------------------------------------------------
(* Bounds of the explored inputs *)

MaxInputLen == 3
MaxSlashes == 2
MaxNum == 1
MaxListLen == 1
MaxMissing == 1
MaxCalls == 2

----------------------------------------------------------------------------
(* Python values as parsed from JSON.  One record shape for every value:   *)
(* t type tag, b bool, n number, s characters of a str, l items of a list, *)
(* k keys of an object, f the values of a top-level object's keys.          *)

EmptyF == [x \in {} |-> 0]

JVal(t, b, n, s, l, k, f) == [t |-> t, b |-> b, n |-> n, s |-> s, l |-> l, k |-> k, f |-> f]

JNull == JVal("null", FALSE, 0, <<>>, <<>>, {}, EmptyF)
JUnbound == JVal("unbound", FALSE, 0, <<>>, <<>>, {}, EmptyF)
JBool(x) == JVal("bool", x, 0, <<>>, <<>>, {}, EmptyF)
JNum(x) == JVal("num", FALSE, x, <<>>, <<>>, {}, EmptyF)
JStr(c) == JVal("str", FALSE, 0, c, <<>>, {}, EmptyF)
JList(items) == JVal("list", FALSE, 0, <<>>, items, {}, EmptyF)
JObj(keys) == JVal("obj", FALSE, 0, <<>>, <<>>, keys, EmptyF)
JTop(fields) == JVal("obj", FALSE, 0, <<>>, <<>>, DOMAIN fields, fields)

W_error == <<"e", "r", "r", "o", "r">>
W_success == <<"s", "u", "c", "c", "e", "s", "s">>
W_message == <<"m", "e", "s", "s", "a", "g", "e">>
W_unknown_error == <<"U", "n", "k", "n", "o", "w", "n", " ">> \o W_error
W_command_processed == <<"C", "o", "m", "m", "a", "n", "d", " ", "p", "r", "o", "c", "e", "s", "s", "e", "d">>

CharsOf(key) ==
  CASE key = "error" -> W_error
    [] key = "success" -> W_success
    [] key = "message" -> W_message
    [] OTHER -> <<key>>

\* bool(v)
Truthy(v) ==
  CASE v.t = "bool" -> v.b
    [] v.t = "num" -> v.n # 0
    [] v.t = "str" -> v.s # <<>>
    [] v.t = "list" -> v.l # <<>>
    [] v.t = "obj" -> v.k # {}
    [] OTHER -> FALSE

\* `key in v` is defined for dict, str and list only
SupportsIn(v) == v.t \in {"obj", "str", "list"}

\* `key in v`: key of a dict, substring of a str, item of a list
In(key, v) ==
  CASE v.t = "obj" -> key \in v.k
    [] v.t = "str" ->
         LET w == CharsOf(key) IN
         \E j \in 1..(Len(v.s) - Len(w) + 1) : SubSeq(v.s, j, j + Len(w) - 1) = w
    [] v.t = "list" -> \E j \in 1..Len(v.l) : v.l[j] = CharsOf(key)
    [] OTHER -> FALSE

\* dict.get(key, default)
Get(d, key, default) == IF key \in DOMAIN d.f THEN d.f[key] ELSE default

----------------------------------------------------------------------------
(* The environment: what the webhook may answer *)

\* the keys each demo loop looks up in the value it gets back
ErrorDemoKeys == {"error", "success", "message"}
VoiceDemoKeys == {"success", "trade_summary", "order_result", "error"}
OrderKeys == {"side", "quantity", "symbol", "price"}

Nums == {JNum(n) : n \in 0..MaxNum}
SuccessVals == {JBool(TRUE), JBool(FALSE)} \cup Nums
OrderVals == {JObj(K) : K \in {X \in SUBSET OrderKeys : Cardinality(OrderKeys \ X) <= MaxMissing}}
               \cup {JNull}
TextVals == {JStr(<<"t">>)}

FieldVals(key) ==
  CASE key = "success" -> SuccessVals
    [] key = "order_result" -> OrderVals
    [] OTHER -> TextVals

AllFieldVals == SuccessVals \cup OrderVals \cup TextVals

Objects(keys) ==
  UNION { {JTop(f) : f \in {g \in [K -> AllFieldVals] : \A key \in K : g[key] \in FieldVals(key)}}
          : K \in SUBSET keys }

RECURSIVE SeqsUpTo(_, _)
SeqsUpTo(S, n) ==
  IF n = 0 THEN {<<>>}
  ELSE LET shorter == SeqsUpTo(S, n - 1)
       IN shorter \cup {Append(q, x) : q \in shorter, x \in S}

StrBodies == {JStr(<<>>), JStr(W_error), JStr(<<"n", "o", " ">> \o W_error),
              JStr(W_success), JStr(<<"o", "k">>)}
ListBodies == {JList(q) : q \in SeqsUpTo({W_error, W_success, <<"x">>}, MaxListLen)}

NonObjects == StrBodies \cup ListBodies \cup Nums \cup {JNull, JBool(TRUE)}

Bodies(keys) == Objects(keys) \cup NonObjects

Statuses == {200, 500}

NoResponse == [kind |-> "none", status |-> 0, body |-> JUnbound]

Responses(bodies) ==
  {NoResponse}
  \cup {[kind |-> "invalid", status |-> st, body |-> JUnbound] : st \in Statuses}
  \cup {[kind |-> "json", status |-> st, body |-> b] : st \in Statuses, b \in bodies}

ErrorResponses == Responses(Bodies(ErrorDemoKeys))
VoiceResponses == Responses(Bodies(VoiceDemoKeys))
\* a test method hands the parsed body to its caller without looking into it
ClientResponses == Responses({JNull, JTop(EmptyF)})

----------------------------------------------------------------------------
(* Output lines *)

Line(label, arg) == [label |-> label, arg |-> arg, exc |-> ""]
ExcLine(e) == [label |-> "Exception", arg |-> JNull, exc |-> e]

----------------------------------------------------------------------------
(* class N8nVoiceTradingTester *)

RECURSIVE rstrip(_, _)
rstrip(s, ch) ==
  IF s # <<>> /\ s[Len(s)] = ch THEN rstrip(SubSeq(s, 1, Len(s) - 1), ch) ELSE s

\* variant: the base URL is stored as given
N8nVoiceTradingTester_unstripped(base) == base

\* __init__: the value stored in self.base_url
N8nVoiceTradingTester(base) == rstrip(base, "/")

VoiceCommandPath == <<"/", "webhook", "/", "voice-command">>
BalancePath == <<"/", "webhook", "/", "balance">>
OrdersPath == <<"/", "webhook", "/", "orders">>

NonTradeAudio == "https://github.com/TigranGalstyan/molecula_test_files/raw/refs/heads/main/non_trade.m4a"

Request(by, method, url, kind, data) ==
  [by |-> by, method |-> method, url |-> url, kind |-> kind, data |-> data]

test_voice_command(b, audio_url, user_id) ==
  Request("test_voice_command", "POST", b \o VoiceCommandPath, "json",
          [audio_url |-> audio_url, user_id |-> user_id])

test_balance(b, exchange) ==
  Request("test_balance", "GET", b \o BalancePath, "params", [exchange |-> exchange])

test_orders(b, exchange) ==
  Request("test_orders", "GET", b \o OrdersPath, "params", [exchange |-> exchange])

test_no_audio_input(b) ==
  Request("test_no_audio_input", "POST", b \o VoiceCommandPath, "json",
          [user_id |-> "test_user"])

\* variant: the empty audio URL is left out of the payload
test_empty_audio_url_omitted(b) ==
  Request("test_empty_audio_url", "POST", b \o VoiceCommandPath, "json",
          [user_id |-> "test_user"])

test_empty_audio_url(b) ==
  Request("test_empty_audio_url", "POST", b \o VoiceCommandPath, "json",
          [audio_url |-> "", user_id |-> "test_user"])

test_malformed_request(b) ==
  Request("test_malformed_request", "POST", b \o VoiceCommandPath, "json",
          [invalid_field |-> "invalid_value", another_invalid |-> 123])

test_passing_error_response(b) ==
  Request("test_passing_error_response", "POST", b \o VoiceCommandPath, "json",
          [audio_url |-> NonTradeAudio, user_id |-> "test_user"])

\* what a method prints before it sends its request
Announce(method) ==
  IF method = "test_passing_error_response"
  THEN <<Line("Testing", JStr(<<method>>)), Line("Note", JNull)>>
  ELSE <<Line("Testing", JStr(<<method>>))>>

\* variant: a request that got no response is sent a second time
MethodCallRetry(method, resp) ==
  CASE resp.kind = "none" ->
         [posts |-> 2, lines |-> Announce(method), raised |-> "ConnectionError", value |-> JUnbound]
    [] resp.kind = "invalid" ->
         [posts |-> 1, lines |-> Announce(method) \o <<Line("Status Code", JNum(resp.status))>>,
          raised |-> "JSONDecodeError", value |-> JUnbound]
    [] OTHER ->
         [posts |-> 1,
          lines |-> Announce(method) \o <<Line("Status Code", JNum(resp.status)),
                                          Line("Response", JNull),
                                          Line("Separator", JNull)>>,
          raised |-> "", value |-> resp.body]

\* variant: an error status raises, as raise_for_status() would
MethodCallRaiseForStatus(method, resp) ==
  CASE resp.kind = "none" ->
         [posts |-> 1, lines |-> Announce(method), raised |-> "ConnectionError", value |-> JUnbound]
    [] resp.status >= 400 ->
         [posts |-> 1, lines |-> Announce(method) \o <<Line("Status Code", JNum(resp.status))>>,
          raised |-> "HTTPError", value |-> JUnbound]
    [] resp.kind = "invalid" ->
         [posts |-> 1, lines |-> Announce(method) \o <<Line("Status Code", JNum(resp.status))>>,
          raised |-> "JSONDecodeError", value |-> JUnbound]
    [] OTHER ->
         [posts |-> 1,
          lines |-> Announce(method) \o <<Line("Status Code", JNum(resp.status)),
                                          Line("Response", JNull),
                                          Line("Separator", JNull)>>,
          raised |-> "", value |-> resp.body]

\* the part every test method shares: one session.post / session.get, print the
\* status code, parse the body twice (to print it and to return it)
MethodCall(method, resp) ==
  CASE resp.kind = "none" ->
         [posts |-> 1, lines |-> Announce(method), raised |-> "ConnectionError", value |-> JUnbound]
    [] resp.kind = "invalid" ->
         [posts |-> 1, lines |-> Announce(method) \o <<Line("Status Code", JNum(resp.status))>>,
          raised |-> "JSONDecodeError", value |-> JUnbound]
    [] OTHER ->
         [posts |-> 1,
          lines |-> Announce(method) \o <<Line("Status Code", JNum(resp.status)),
                                          Line("Response", JNull),
                                          Line("Separator", JNull)>>,
          raised |-> "", value |-> resp.body]

----------------------------------------------------------------------------
(* The demo loops *)

DemoBaseUrl == <<"https://tigrann.app.n8n.cloud">>

error_tests ==
  << [name |-> "No Audio Input", test_method |-> "test_no_audio_input",
      expected_error |-> "No audio input provided"],
     [name |-> "Empty Audio URL", test_method |-> "test_empty_audio_url",
      expected_error |-> "No audio input provided"],
     [name |-> "Malformed Request", test_method |-> "test_malformed_request",
      expected_error |-> "No audio input provided"],
     [name |-> "Passing Error Response", test_method |-> "test_passing_error_response",
      expected_error |-> "Various error responses"] >>

voice_commands ==
  << [name |-> "Buy Bitcoin Market Order",
      audio_url |-> "https://github.com/TigranGalstyan/molecula_test_files/raw/refs/heads/main/buy_btc_binance.m4a",
      expected_transcription |-> "Buy 0.5 Bitcoin on Binance at market price"],
     [name |-> "Sell Ethereum Limit Order",
      audio_url |-> "https://github.com/TigranGalstyan/molecula_test_files/raw/refs/heads/main/sell_eth.m4a",
      expected_transcription |-> "Sell 10 ETH at $3,200 on Coinbase"],
     [name |-> "Buy Bitcoin Limit Order",
      audio_url |-> "https://github.com/TigranGalstyan/molecula_test_files/raw/refs/heads/main/buy_btc_limit.m4a",
      expected_transcription |-> "Place a limit order to buy 1 BTC at $45,000 on Binance"] >>

\* the request test['test_method']() sends
ErrorTestRequest(test, b) ==
  CASE test.test_method = "test_no_audio_input" -> test_no_audio_input(b)
    [] test.test_method = "test_empty_audio_url" -> test_empty_audio_url(b)
    [] test.test_method = "test_malformed_request" -> test_malformed_request(b)
    [] OTHER -> test_passing_error_response(b)

Tried(lines, exc) == [lines |-> lines, exc |-> exc]

\* variant: the success key is looked at before the error key
ErrorVerdictSuccessFirst(r) ==
  IF ~SupportsIn(r) THEN Tried(<<>>, "TypeError")
  ELSE IF In("success", r) THEN
    IF r.t # "obj" THEN Tried(<<>>, "TypeError")
    ELSE IF ~Truthy(r.f["success"])
    THEN Tried(<<Line("Error Handled", Get(r, "message", JStr(W_unknown_error)))>>, "")
    ELSE IF In("error", r)
    THEN Tried(<<Line("Error Caught", Get(r, "error", JStr(W_unknown_error)))>>, "")
    ELSE Tried(<<Line("Unexpected Response", r)>>, "")
  ELSE IF In("error", r) THEN
    IF r.t # "obj" THEN Tried(<<>>, "AttributeError")
    ELSE Tried(<<Line("Error Caught", Get(r, "error", JStr(W_unknown_error)))>>, "")
  ELSE Tried(<<Line("Unexpected Response", r)>>, "")

\* the if / elif / else of demo_error_scenarios on the value a method returned
ErrorVerdict(r) ==
  IF ~SupportsIn(r) THEN Tried(<<>>, "TypeError")
  ELSE IF In("error", r) THEN
    IF r.t # "obj" THEN Tried(<<>>, "AttributeError")
    ELSE Tried(<<Line("Error Caught", Get(r, "error", JStr(W_unknown_error)))>>
               \o (IF In("message", r)
                   THEN <<Line("Message", Get(r, "message", JNull))>> ELSE <<>>), "")
  ELSE IF In("success", r) THEN
    IF r.t # "obj" THEN Tried(<<>>, "TypeError")
    ELSE IF ~Truthy(r.f["success"])
    THEN Tried(<<Line("Error Handled", Get(r, "message", JStr(W_unknown_error)))>>, "")
    ELSE Tried(<<Line("Unexpected Response", r)>>, "")
  ELSE Tried(<<Line("Unexpected Response", r)>>, "")

\* order['side'], order['quantity'], order['symbol'], order['price']
OrderLine(order) ==
  IF order.t # "obj" THEN Tried(<<>>, "TypeError")
  ELSE IF ~(OrderKeys \subseteq order.k) THEN Tried(<<>>, "KeyError")
  ELSE Tried(<<Line("Order", order)>>, "")

\* variant: success is decided by the presence of the key, not by its value
VoiceVerdictKeyPresent(r) ==
  IF r.t # "obj" THEN Tried(<<>>, "AttributeError")
  ELSE IF In("success", r) THEN
    LET first == <<Line("Success", Get(r, "trade_summary", JStr(W_command_processed)))>> IN
    IF In("order_result", r)
    THEN LET o == OrderLine(r.f["order_result"]) IN Tried(first \o o.lines, o.exc)
    ELSE Tried(first, "")
  ELSE Tried(<<Line("Error", Get(r, "error", JStr(W_unknown_error)))>>, "")

\* the if / else of demo_voice_commands on the value test_voice_command returned
VoiceVerdict(r) ==
  IF r.t # "obj" THEN Tried(<<>>, "AttributeError")
  ELSE IF Truthy(Get(r, "success", JNull)) THEN
    LET first == <<Line("Success", Get(r, "trade_summary", JStr(W_command_processed)))>> IN
    IF In("order_result", r)
    THEN LET o == OrderLine(r.f["order_result"]) IN Tried(first \o o.lines, o.exc)
    ELSE Tried(first, "")
  ELSE Tried(<<Line("Error", Get(r, "error", JStr(W_unknown_error)))>>, "")

\* variant: the handler catches the errors of the HTTP library only
CaughtOnlyRequestErrors(e) == e \in {"ConnectionError", "JSONDecodeError", "HTTPError"}

\* `except Exception`: every exception the try block can raise derives from Exception
CaughtByExcept(e) ==
  e \in {"ConnectionError", "JSONDecodeError", "HTTPError", "TypeError", "AttributeError", "KeyError"}

\* try: ... except Exception as e: print(Exception)
TryExcept(t) ==
  IF t.exc = "" THEN [lines |-> t.lines, escaped |-> ""]
  ELSE IF CaughtByExcept(t.exc) THEN [lines |-> t.lines \o <<ExcLine(t.exc)>>, escaped |-> ""]
  ELSE [lines |-> t.lines, escaped |-> t.exc]

Header(name, expected) == <<Line("Case", JStr(<<name>>)), Line("Expected", JStr(<<expected>>))>>

\* one iteration of the loop of demo_error_scenarios
demo_error_scenarios_case(test, resp) ==
  LET c == MethodCall(test.test_method, resp)
      t == IF c.raised # "" THEN Tried(c.lines, c.raised)
           ELSE LET v == ErrorVerdict(c.value) IN Tried(c.lines \o v.lines, v.exc)
      h == TryExcept(t)
  IN [lines |-> Header(test.name, test.expected_error) \o h.lines, escaped |-> h.escaped,
      posts |-> c.posts]

\* one iteration of the loop of demo_voice_commands
demo_voice_commands_case(command, resp) ==
  LET c == MethodCall("test_voice_command", resp)
      t == IF c.raised # "" THEN Tried(c.lines, c.raised)
           ELSE LET v == VoiceVerdict(c.value) IN Tried(c.lines \o v.lines, v.exc)
      h == TryExcept(t)
  IN [lines |-> Header(command.name, command.expected_transcription) \o h.lines,
      escaped |-> h.escaped, posts |-> c.posts]

\* the lines of a case that state its verdict
IsVerdictLine(ln) ==
  ln.label \in {"Error Caught", "Error Handled", "Unexpected Response", "Success", "Error",
                "Exception"}

AltStatuses(resp) == IF resp.kind = "none" THEN {resp.status} ELSE Statuses

AltRun(st, expected, r) ==
  [status |-> st, expected |-> expected, verdict |-> SelectSeq(r.lines, IsVerdictLine)]

\* the same case of demo_error_scenarios under another status code and expected_error
ErrorAltRuns(test, resp) ==
  { AltRun(st, e, demo_error_scenarios_case([test EXCEPT !.expected_error = e],
                                            [resp EXCEPT !.status = st]))
    : st \in AltStatuses(resp),
      e \in {error_tests[j].expected_error : j \in 1..Len(error_tests)} }

\* the same case of demo_voice_commands under another status code and expected_transcription
VoiceAltRuns(command, resp) ==
  { AltRun(st, e, demo_voice_commands_case([command EXCEPT !.expected_transcription = e],
                                           [resp EXCEPT !.status = st]))
    : st \in AltStatuses(resp),
      e \in {voice_commands[j].expected_transcription : j \in 1..Len(voice_commands)} }

----------------------------------------------------------------------------
(* main() *)

IsSpace(c) == c \in {" ", "\t"}

RECURSIVE lstrip_ws(_)
lstrip_ws(s) == IF s # <<>> /\ IsSpace(Head(s)) THEN lstrip_ws(Tail(s)) ELSE s

RECURSIVE rstrip_ws(_)
rstrip_ws(s) ==
  IF s # <<>> /\ IsSpace(s[Len(s)]) THEN rstrip_ws(SubSeq(s, 1, Len(s) - 1)) ELSE s

\* variant: only leading whitespace is removed
strip_left_only(s) == lstrip_ws(s)

\* str.strip()
strip(s) == rstrip_ws(lstrip_ws(s))

MenuChars == {" ", "1", "2", "x"}
MenuInputs == SeqsUpTo(MenuChars, MaxInputLen)

RECURSIVE Slashes(_)
Slashes(n) == IF n = 0 THEN <<>> ELSE <<"/">> \o Slashes(n - 1)

BaseUrls ==
  {stem \o Slashes(n) : stem \in {<<"http://h">>, <<"http://h", "/", "p">>}, n \in 0..MaxSlashes}

AudioUrls == {"", "a.m4a"}
UserIds == {"test_user", "u2"}
Exchanges == {"binance", "coinbase"}

----------------------------------------------------------------------------
(* State machine *)

Init ==
  /\ pc = "start"
  /\ menu_input = <<>>
  /\ demo = ""
  /\ base_arg = <<>>
  /\ base_url = <<>>
  /\ i = 0
  /\ requests = <<>>
  /\ case_response = NoResponse
  /\ out = <<>>
  /\ calls = 0
  /\ raised = ""
  /\ alt_runs = {}

\* main(): read the menu choice, strip it, and enter the chosen demo, which
\* constructs its tester
main(inp) ==
  /\ pc = "start"
  /\ menu_input' = inp
  /\ LET choice == strip(inp) IN
     IF choice = <<"1">>
     THEN /\ pc' = "voice"
          /\ demo' = "demo_voice_commands"
          /\ base_arg' = DemoBaseUrl
          /\ base_url' = N8nVoiceTradingTester(DemoBaseUrl)
          /\ out' = <<Line("Banner", JStr(<<"voice">>))>>
     ELSE IF choice = <<"2">>
     THEN /\ pc' = "error"
          /\ demo' = "demo_error_scenarios"
          /\ base_arg' = DemoBaseUrl
          /\ base_url' = N8nVoiceTradingTester(DemoBaseUrl)
          /\ out' = <<Line("Banner", JStr(<<"error">>))>>
     ELSE /\ pc' = "done"
          /\ out' = <<Line("Info", JNull)>>
          /\ UNCHANGED <<demo, base_arg, base_url>>
  /\ UNCHANGED <<i, requests, case_response, calls, raised, alt_runs>>

\* the header prints and the try / except of one loop iteration
LoopStep(req, resp, r, alt, sleep) ==
  /\ requests' = requests \o [j \in 1..r.posts |-> req]
  /\ case_response' = resp
  /\ out' = r.lines
  /\ alt_runs' = alt
  /\ i' = i + 1
  /\ pc' = IF r.escaped = "" THEN sleep ELSE "aborted"
  /\ UNCHANGED <<menu_input, demo, base_arg, base_url, calls, raised>>

\* time.sleep(1) ends the iteration; what belonged to the case is over
Pause(sleep, head) ==
  /\ pc = sleep
  /\ pc' = head
  /\ case_response' = NoResponse
  /\ out' = <<>>
  /\ alt_runs' = {}
  /\ UNCHANGED <<menu_input, demo, base_arg, base_url, i, requests, calls, raised>>

ErrorCase(resp) ==
  /\ pc = "error"
  /\ i < Len(error_tests)
  /\ LET test == error_tests[i + 1] IN
     LoopStep(ErrorTestRequest(test, base_url), resp, demo_error_scenarios_case(test, resp),
              ErrorAltRuns(test, resp), "error_sleep")

ErrorPause == Pause("error_sleep", "error")

ErrorCompleted ==
  /\ pc = "error"
  /\ i = Len(error_tests)
  /\ pc' = "done"
  /\ out' = <<Line("Completed", JNull)>>
  /\ UNCHANGED <<menu_input, demo, base_arg, base_url, i, requests, case_response,
                 calls, raised, alt_runs>>

VoiceCase(resp) ==
  /\ pc = "voice"
  /\ i < Len(voice_commands)
  /\ LET command == voice_commands[i + 1] IN
     LoopStep(test_voice_command(base_url, command.audio_url, "test_user"), resp,
              demo_voice_commands_case(command, resp),
              VoiceAltRuns(command, resp), "voice_sleep")

VoicePause == Pause("voice_sleep", "voice")

VoiceReturn ==
  /\ pc = "voice"
  /\ i = Len(voice_commands)
  /\ pc' = "done"
  /\ UNCHANGED <<menu_input, demo, base_arg, base_url, i, requests, case_response,
                 out, calls, raised, alt_runs>>

\* direct use of the class: N8nVoiceTradingTester(base)
Construct(base) ==
  /\ pc = "start"
  /\ pc' = "client"
  /\ base_arg' = base
  /\ base_url' = N8nVoiceTradingTester(base)
  /\ UNCHANGED <<menu_input, demo, i, requests, case_response, out, calls,
                 raised, alt_runs>>

Call(req, resp) ==
  /\ pc = "client"
  /\ calls < MaxCalls
  /\ LET c == MethodCall(req.by, resp) IN
     /\ out' = c.lines
     /\ raised' = c.raised
     /\ requests' = requests \o [j \in 1..c.posts |-> req]
  /\ calls' = calls + 1
  /\ UNCHANGED <<pc, menu_input, demo, base_arg, base_url, i, case_response, alt_runs>>

CallVoiceCommand(audio_url, user_id, resp) == Call(test_voice_command(base_url, audio_url, user_id), resp)
CallBalance(exchange, resp) == Call(test_balance(base_url, exchange), resp)
CallOrders(exchange, resp) == Call(test_orders(base_url, exchange), resp)
CallNoAudioInput(resp) == Call(test_no_audio_input(base_url), resp)
CallEmptyAudioUrl(resp) == Call(test_empty_audio_url(base_url), resp)
CallMalformedRequest(resp) == Call(test_malformed_request(base_url), resp)
CallPassingErrorResponse(resp) == Call(test_passing_error_response(base_url), resp)

Next ==
  \/ \E inp \in MenuInputs : main(inp)
  \/ \E resp \in ErrorResponses : ErrorCase(resp)
  \/ ErrorPause
  \/ ErrorCompleted
  \/ \E resp \in VoiceResponses : VoiceCase(resp)
  \/ VoicePause
  \/ VoiceReturn
  \/ \E base \in BaseUrls : Construct(base)
  \/ \E a \in AudioUrls, u \in UserIds, resp \in ClientResponses : CallVoiceCommand(a, u, resp)
  \/ \E e \in Exchanges, resp \in ClientResponses : CallBalance(e, resp)
  \/ \E e \in Exchanges, resp \in ClientResponses : CallOrders(e, resp)
  \/ \E resp \in ClientResponses : CallNoAudioInput(resp)
  \/ \E resp \in ClientResponses : CallEmptyAudioUrl(resp)
  \/ \E resp \in ClientResponses : CallMalformedRequest(resp)
  \/ \E resp \in ClientResponses : CallPassingErrorResponse(resp)

Spec == Init /\ [][Next]_vars

\* every HTTP call returns or raises, so a running loop always takes its next step
FairSpec == Spec /\ WF_vars(Next)

----------------------------------------------------------------------------
(* Vocabulary of the properties *)

ErrorVerdictLabels == {"Error Caught", "Error Handled", "Unexpected Response", "Exception"}
VoiceVerdictLabels == {"Success", "Error", "Exception"}

IsErrorVerdict(ln) == ln.label \in ErrorVerdictLabels
IsVoiceVerdict(ln) == ln.label \in VoiceVerdictLabels
IsExceptionLine(ln) == ln.label = "Exception"

LabelsOf(lines) == [j \in 1..Len(lines) |-> lines[j].label]

\* the current state is the end of an iteration of a demo loop
AfterErrorCase == pc = "error_sleep"
AfterVoiceCase == pc = "voice_sleep"

ReturnedObject == case_response.kind = "json" /\ case_response.body.t = "obj"

\* the JSON values Python treats as false
FalsyJson == {JNull, JBool(FALSE), JNum(0), JStr(<<>>), JList(<<>>), JObj({})}

----------------------------------------------------------------------------
(* C1: in demo_error_scenarios the verdict for a returned JSON object is     *)
(* 'Error Caught' when the object has the key error, otherwise 'Error       *)
(* Handled' when it has the key success with a falsy value, otherwise       *)
(* 'Unexpected Response'.                                                    *)
C1_ErrorVerdictByKeys ==
  (AfterErrorCase /\ ReturnedObject) =>
    LET f == case_response.body.f
        expected == IF "error" \in DOMAIN f THEN "Error Caught"
                    ELSE IF "success" \in DOMAIN f /\ f["success"] \in FalsyJson
                         THEN "Error Handled"
                         ELSE "Unexpected Response"
    IN LabelsOf(SelectSeq(out, IsErrorVerdict)) = <<expected>>

C1_Witness ==
  /\ AfterErrorCase /\ ReturnedObject
  /\ {"error", "success"} \subseteq DOMAIN case_response.body.f
  /\ case_response.body.f["success"] = JBool(TRUE)
  /\ LabelsOf(SelectSeq(out, IsErrorVerdict)) = <<"Error Caught">>

----------------------------------------------------------------------------
C2_Url == <<"https://tigrann.app.n8n.cloud", "/", "webhook", "/", "voice-command">>

C2_Post(by, data) == [by |-> by, method |-> "POST", url |-> C2_Url, kind |-> "json", data |-> data]

C2_ErrorRequests ==
  << C2_Post("test_no_audio_input", [user_id |-> "test_user"]),
     C2_Post("test_empty_audio_url", [audio_url |-> "", user_id |-> "test_user"]),
     C2_Post("test_malformed_request", [invalid_field |-> "invalid_value", another_invalid |-> 123]),
     C2_Post("test_passing_error_response",
             [audio_url |-> "https://github.com/TigranGalstyan/molecula_test_files/raw/refs/heads/main/non_trade.m4a",
              user_id |-> "test_user"]) >>

C2_VoiceRequests ==
  << C2_Post("test_voice_command",
             [audio_url |-> "https://github.com/TigranGalstyan/molecula_test_files/raw/refs/heads/main/buy_btc_binance.m4a",
              user_id |-> "test_user"]),
     C2_Post("test_voice_command",
             [audio_url |-> "https://github.com/TigranGalstyan/molecula_test_files/raw/refs/heads/main/sell_eth.m4a",
              user_id |-> "test_user"]),
     C2_Post("test_voice_command",
             [audio_url |-> "https://github.com/TigranGalstyan/molecula_test_files/raw/refs/heads/main/buy_btc_limit.m4a",
              user_id |-> "test_user"]) >>

(* C2: no retry.  Each table entry of a demo causes exactly one request      *)
(* attempt, in table order, whatever the earlier cases answered: after n     *)
(* iterations the requests attempted are the first n requests of the table, *)
(* and a finished demo has attempted 4 (error scenarios) or 3 (voice         *)
(* commands) requests.                                                       *)
C2_NoRetry ==
  /\ demo = "demo_error_scenarios" =>
       /\ i <= 4 /\ requests = SubSeq(C2_ErrorRequests, 1, i)
       /\ pc = "done" => Len(requests) = 4
  /\ demo = "demo_voice_commands" =>
       /\ i <= 3 /\ requests = SubSeq(C2_VoiceRequests, 1, i)
       /\ pc = "done" => Len(requests) = 3

C2_Witness ==
  /\ demo = "demo_error_scenarios" /\ pc = "done"
  /\ case_response.kind = "none"
  /\ Len(requests) = 4

----------------------------------------------------------------------------
PostsToVoiceCommand(r) ==
  /\ r.method = "POST"
  /\ Len(r.url) >= 4
  /\ SubSeq(r.url, Len(r.url) - 3, Len(r.url)) = <<"/", "webhook", "/", "voice-command">>

(* C3 as stated: every request POSTed to the voice-command webhook carries  *)
(* a JSON object with both audio_url and user_id.                            *)
C3_Original ==
  \A k \in 1..Len(requests) :
    PostsToVoiceCommand(requests[k]) =>
      {"audio_url", "user_id"} \subseteq DOMAIN requests[k].data

(* C3 amended: the requests of test_voice_command, test_empty_audio_url and *)
(* test_passing_error_response carry both audio_url and user_id; the        *)
(* request of test_no_audio_input carries user_id only; the request of       *)
(* test_malformed_request carries neither, only invalid_field and           *)
(* another_invalid.                                                          *)
C3_Amended ==
  \A k \in 1..Len(requests) :
    LET r == requests[k] IN
    PostsToVoiceCommand(r) =>
      /\ r.kind = "json"
      /\ r.by \in {"test_voice_command", "test_empty_audio_url", "test_passing_error_response"}
           => DOMAIN r.data = {"audio_url", "user_id"}
      /\ r.by = "test_no_audio_input" => DOMAIN r.data = {"user_id"}
      /\ r.by = "test_malformed_request" => DOMAIN r.data = {"invalid_field", "another_invalid"}
      /\ r.by \in {"test_voice_command", "test_empty_audio_url", "test_passing_error_response",
                   "test_no_audio_input", "test_malformed_request"}

C3_Witness ==
  /\ Len(requests) = 4
  /\ PostsToVoiceCommand(requests[1]) /\ DOMAIN requests[1].data = {"user_id"}
  /\ PostsToVoiceCommand(requests[2]) /\ DOMAIN requests[2].data = {"audio_url", "user_id"}
  /\ PostsToVoiceCommand(requests[3]) /\ "user_id" \notin DOMAIN requests[3].data

----------------------------------------------------------------------------
C4_Route(by) ==
  CASE by = "test_balance" -> [method |-> "GET", path |-> <<"/", "webhook", "/", "balance">>]
    [] by = "test_orders" -> [method |-> "GET", path |-> <<"/", "webhook", "/", "orders">>]
    [] OTHER -> [method |-> "POST", path |-> <<"/", "webhook", "/", "voice-command">>]

\* stem is base with all of its trailing '/' removed
C4_IsStripped(stem, base) ==
  /\ Len(stem) <= Len(base)
  /\ SubSeq(base, 1, Len(stem)) = stem
  /\ \A j \in (Len(stem) + 1)..Len(base) : base[j] = "/"
  /\ stem # <<>> => stem[Len(stem)] # "/"

(* C4: every request goes to the fixed path and method of the method that   *)
(* sent it: the five voice-command methods POST to                           *)
(* <base>/webhook/voice-command, test_balance GETs <base>/webhook/balance,  *)
(* test_orders GETs <base>/webhook/orders, where <base> is the base URL      *)
(* argument without its trailing '/' characters.                             *)
C4_FixedRoutes ==
  \A k \in 1..Len(requests) :
    LET r == requests[k]
        stem == SubSeq(r.url, 1, Len(r.url) - 4)
    IN /\ r.by \in {"test_voice_command", "test_no_audio_input", "test_empty_audio_url",
                    "test_malformed_request", "test_passing_error_response",
                    "test_balance", "test_orders"}
       /\ r.method = C4_Route(r.by).method
       /\ Len(r.url) >= 4
       /\ SubSeq(r.url, Len(r.url) - 3, Len(r.url)) = C4_Route(r.by).path
       /\ C4_IsStripped(stem, base_arg)

C4_Witness ==
  /\ pc = "client"
  /\ Len(base_arg) >= 2 /\ base_arg[Len(base_arg)] = "/" /\ base_arg[Len(base_arg) - 1] = "/"
  /\ Len(requests) = 2
  /\ requests[1].by = "test_balance" /\ requests[1].method = "GET"
  /\ requests[2].by = "test_malformed_request" /\ requests[2].method = "POST"

----------------------------------------------------------------------------
(* C5: in demo_voice_commands an object whose success is truthy is reported *)
(* as 'Success', with the text 'Command processed' when trade_summary is    *)
(* absent, and without an exception when order_result is absent; an 'Order' *)
(* line comes only after a 'Success' line of the same command and only for  *)
(* an order_result that has side, quantity, symbol and price; an object     *)
(* whose success is absent or falsy is reported as 'Error'.                  *)
C5_OptionalSummaryAndOrder ==
  AfterVoiceCase =>
    /\ ReturnedObject =>
         LET f == case_response.body.f
             truthy == "success" \in DOMAIN f /\ f["success"] \notin FalsyJson
             verdicts == SelectSeq(out, IsVoiceVerdict)
         IN /\ truthy =>
                 /\ verdicts # <<>>
                 /\ verdicts[1].label = "Success"
                 /\ "trade_summary" \notin DOMAIN f => verdicts[1].arg = JStr(W_command_processed)
                 /\ "trade_summary" \in DOMAIN f => verdicts[1].arg = f["trade_summary"]
                 /\ "order_result" \notin DOMAIN f => LabelsOf(verdicts) = <<"Success">>
            /\ ~truthy => LabelsOf(verdicts) = <<"Error">>
    /\ \A j \in 1..Len(out) :
         out[j].label = "Order" =>
           /\ j > 1 /\ out[j - 1].label = "Success"
           /\ ReturnedObject
           /\ "order_result" \in DOMAIN case_response.body.f
           /\ case_response.body.f["order_result"].t = "obj"
           /\ {"side", "quantity", "symbol", "price"} \subseteq case_response.body.f["order_result"].k

C5_Witness ==
  /\ AfterVoiceCase /\ ReturnedObject
  /\ "success" \in DOMAIN case_response.body.f
  /\ case_response.body.f["success"] = JBool(TRUE)
  /\ {"trade_summary", "order_result"} \cap DOMAIN case_response.body.f = {}
  /\ LabelsOf(SelectSeq(out, IsVoiceVerdict)) = <<"Success">>
  /\ out[Len(out)].arg = JStr(W_command_processed)

----------------------------------------------------------------------------
C6_IsBlank(c) == c \in {" ", "\t", "\n", "\r"}

\* inp is w with whitespace before and after it
C6_Padded(inp, w) ==
  \E a \in 0..Len(inp) :
    /\ a + Len(w) <= Len(inp)
    /\ SubSeq(inp, a + 1, a + Len(w)) = w
    /\ \A j \in 1..Len(inp) : (j <= a \/ j > a + Len(w)) => C6_IsBlank(inp[j])

(* C6: main() dispatches on the stripped menu input: '1' runs only           *)
(* demo_voice_commands, '2' runs only demo_error_scenarios, and any other   *)
(* input runs no demo and sends no request.                                  *)
C6_MenuDispatch ==
  pc \in {"voice", "voice_sleep", "error", "error_sleep", "done", "aborted"} =>
    /\ C6_Padded(menu_input, <<"1">>) =>
         /\ demo = "demo_voice_commands"
         /\ pc \notin {"error", "error_sleep"}
         /\ \A k \in 1..Len(requests) : requests[k].by = "test_voice_command"
    /\ C6_Padded(menu_input, <<"2">>) =>
         /\ demo = "demo_error_scenarios"
         /\ pc \notin {"voice", "voice_sleep"}
         /\ \A k \in 1..Len(requests) : requests[k].by # "test_voice_command"
    /\ ~(C6_Padded(menu_input, <<"1">>) \/ C6_Padded(menu_input, <<"2">>)) =>
         /\ demo = ""
         /\ pc = "done"
         /\ requests = <<>>

C6_Witness ==
  /\ menu_input = <<" ", "1", " ">>
  /\ pc = "done"
  /\ demo = "demo_voice_commands"
  /\ Len(requests) = 3

----------------------------------------------------------------------------
\* the current case failed: the method raised or returned something that is not an object
C7_FailedCase == case_response.kind # "json" \/ case_response.body.t # "obj"

C7_Contained ==
  /\ pc # "aborted"
  /\ (AfterErrorCase /\ C7_FailedCase) =>
       /\ Len(SelectSeq(out, IsErrorVerdict)) <= 1
       /\ Len(requests) = i
  /\ (AfterVoiceCase /\ C7_FailedCase) =>
       /\ LabelsOf(SelectSeq(out, IsVoiceVerdict)) = <<"Exception">>
       /\ Len(requests) = i

(* C7: a failing case never aborts a demo.  When a test method raises or    *)
(* returns a value that is not an object the loop prints at most one        *)
(* verdict line for the case, no exception leaves the loop, and the loop    *)
(* goes on: demo_error_scenarios eventually prints its completion message   *)
(* after 4 cases and demo_voice_commands eventually returns after 3.        *)
C7_FailureNeverAborts ==
  /\ []C7_Contained
  /\ (pc \in {"error", "error_sleep"})
       ~> (pc = "done" /\ i = 4 /\ Len(requests) = 4 /\ LabelsOf(out) = <<"Completed">>)
  /\ (pc \in {"voice", "voice_sleep"}) ~> (pc = "done" /\ i = 3 /\ Len(requests) = 3)

C7_Witness ==
  /\ pc = "error_sleep" /\ i = 1
  /\ case_response.kind = "json" /\ case_response.body = JNull
  /\ LabelsOf(SelectSeq(out, IsErrorVerdict)) = <<"Exception">>

----------------------------------------------------------------------------
C8_Verdict(lines) == SelectSeq(lines, LAMBDA ln : ln.label \in ErrorVerdictLabels \cup VoiceVerdictLabels)

C8_Expected ==
  IF pc = "error_sleep" THEN error_tests[i].expected_error
  ELSE voice_commands[i].expected_transcription

(* C8: the verdict of a case is a function of the parsed body only.  The    *)
(* expected text and the status code are printed, and every run of the case *)
(* that receives the same body under another status code or with another    *)
(* expected text in the table reports the verdict this run reports.         *)
C8_VerdictFromBodyOnly ==
  (AfterErrorCase \/ AfterVoiceCase) =>
    /\ Len(out) >= 2 /\ out[2] = Line("Expected", JStr(<<C8_Expected>>))
    /\ case_response.kind # "none" =>
         \E j \in 1..Len(out) : out[j] = Line("Status Code", JNum(case_response.status))
    /\ \A a \in alt_runs : a.verdict = C8_Verdict(out)

C8_Witness ==
  /\ pc = "error_sleep" /\ i = 4
  /\ ReturnedObject
  /\ LabelsOf(C8_Verdict(out)) = <<"Error Handled">>
  /\ \E a \in alt_runs : a.status # case_response.status /\ a.expected # C8_Expected

----------------------------------------------------------------------------
(* C9: each case of a demo loop reports exactly one verdict: one of 'Error  *)
(* Caught', 'Error Handled', 'Unexpected Response', 'Exception' in           *)
(* demo_error_scenarios and one of 'Success', 'Error', 'Exception' in        *)
(* demo_voice_commands.                                                      *)
C9_ExactlyOneVerdict ==
  /\ AfterErrorCase => Len(SelectSeq(out, IsErrorVerdict)) = 1
  /\ AfterVoiceCase => Len(SelectSeq(out, IsVoiceVerdict)) = 1

====
